---- MODULE Spec2Model ----
(***************************************************************************)
(* OccuProb: occupation probabilities and heat capacity of the minima of a *)
(* potential-energy surface in the superposition approximation.            *)
(*                                                                         *)
(* Numbers.  A numpy float is modelled as an extended rational: a record   *)
(*   [k |-> "fin", n, d]   the rational n/d in lowest terms, d > 0         *)
(*   [k |-> "inf", n, 0]   +inf (n = 1) or -inf (n = -1)                   *)
(*   [k |-> "nan", 0, 0]   NaN                                             *)
(*   [k |-> "pow", n, d]   the irrational 2^(n/d), n/d not an integer      *)
(* with IEEE-754 rules for the special values (0*inf = nan, x/0 = inf,     *)
(* inf/inf = nan, 0/0 = nan).  Rounding is not modelled: finite arithmetic *)
(* is exact.                                                               *)
(*                                                                         *)
(* Units.  Temperatures are in units in which KB = 2 and frequencies in    *)
(* units in which 0.5 * H = 1; the exponential and the logarithm are taken  *)
(* to base 2 (np.exp(x) is 2^x), which rescales KB by ln 2.  All the       *)
(* algebraic and limit behaviour of exp, log, sinh (exp(0) = 1,            *)
(* exp(-inf) = 0, exp(a+b) = exp(a)exp(b), sinh(0) = 0, ...) is kept.      *)
(***************************************************************************)
EXTENDS Integers, Sequences, FiniteSets, TLC

VARIABLES
    partition_functions,  \* SuperpositionApproximation.partition_functions
    call,                 \* the last operation called
    args,                 \* the arguments of a constructor call
    temperature,          \* the temperature array passed to it
    observable,           \* the observable array passed to it
    ret,                  \* what the call returned
    raised,               \* the exception it raised, "none" if it returned
    earlier               \* a calc_probability call the caller remembers

vars == <<partition_functions, call, args, temperature, observable, ret,
          raised, earlier>>

----------------------------------------------------------------------------
(* Extended rationals *)

Abs(x) == IF x < 0 THEN -x ELSE x

RECURSIVE Gcd(_, _)
Gcd(a, b) == IF b = 0 THEN a ELSE Gcd(b, a % b)

\* n/d in lowest terms with a positive denominator (d # 0).
Rat(n, d) ==
    LET g == Gcd(Abs(n), Abs(d))
        s == IF d < 0 THEN -1 ELSE 1
    IN  [k |-> "fin", n |-> (s * n) \div g, d |-> (s * d) \div g]

Int2Val(i) == [k |-> "fin", n |-> i, d |-> 1]
Zero   == Int2Val(0)
One    == Int2Val(1)
PosInf == [k |-> "inf", n |-> 1, d |-> 0]
NegInf == [k |-> "inf", n |-> -1, d |-> 0]
NaN    == [k |-> "nan", n |-> 0, d |-> 0]

IsFin(a) == a.k = "fin"
IsInf(a) == a.k = "inf"
IsNaN(a) == a.k = "nan"
IsPow(a) == a.k = "pow"

\* The sign of a value: -1, 0 or 1 (a NaN has none: 0; 2^q is positive).
Sgn(a) == IF IsPow(a) THEN 1 ELSE IF a.n > 0 THEN 1 ELSE IF a.n < 0 THEN -1 ELSE 0

\* Python's a > 0, a < 0, a != 0 on floats: every comparison with NaN is
\* false, except != which is true.
Gt0(a) == ~IsNaN(a) /\ Sgn(a) > 0
Lt0(a) == ~IsNaN(a) /\ Sgn(a) < 0
Ne0(a) == IsNaN(a) \/ Sgn(a) # 0

Neg(a) ==
    CASE IsFin(a) -> [a EXCEPT !.n = -a.n]
      [] IsInf(a) -> [a EXCEPT !.n = -a.n]
      [] OTHER    -> NaN

Mul(a, b) ==
    CASE IsNaN(a) \/ IsNaN(b) -> NaN
      [] IsPow(a) \/ IsPow(b) ->
            IF IsPow(a) /\ IsPow(b) THEN NaN
            ELSE LET o == IF IsPow(a) THEN b ELSE a
                     p == IF IsPow(a) THEN a ELSE b
                 IN  IF o = One THEN p
                     ELSE IF o = Zero THEN Zero
                     ELSE IF IsInf(o) THEN o ELSE NaN
      [] IsInf(a) \/ IsInf(b) ->
            IF Sgn(a) * Sgn(b) = 0 THEN NaN
            ELSE IF Sgn(a) * Sgn(b) > 0 THEN PosInf ELSE NegInf
      [] a.d = 1 /\ b.d = 1 -> Int2Val(a.n * b.n)
      [] OTHER -> Rat(a.n * b.n, a.d * b.d)

\* numpy's true division: a nonzero number over zero is an infinity (numpy
\* warns and does not raise), 0/0 and inf/inf are NaN.  Zeros are +0.
Div(a, b) ==
    CASE IsNaN(a) \/ IsNaN(b) -> NaN
      [] IsPow(a) \/ IsPow(b) ->
            IF a = b THEN One
            ELSE IF IsPow(a) /\ b = One THEN a
            ELSE IF IsPow(a) /\ IsInf(b) THEN Zero
            ELSE IF IsPow(a) /\ b = Zero THEN PosInf
            ELSE IF IsPow(b) /\ a = Zero THEN Zero
            ELSE IF IsPow(b) /\ IsInf(a) THEN a
            ELSE NaN
      [] IsInf(a) ->
            IF IsInf(b) THEN NaN
            ELSE IF Sgn(a) * Sgn(b) < 0 THEN NegInf ELSE PosInf
      [] IsInf(b) -> Zero
      [] b.n = 0 ->
            IF a.n = 0 THEN NaN ELSE IF a.n > 0 THEN PosInf ELSE NegInf
      [] OTHER -> Rat(a.n * b.d, a.d * b.n)

Add(a, b) ==
    CASE IsNaN(a) \/ IsNaN(b) -> NaN
      [] IsPow(a) \/ IsPow(b) ->
            IF a = Zero THEN b
            ELSE IF b = Zero THEN a
            ELSE IF IsInf(a) THEN a
            ELSE IF IsInf(b) THEN b ELSE NaN
      [] IsInf(a) /\ IsInf(b) -> IF a.n = b.n THEN a ELSE NaN
      [] IsInf(a) -> a
      [] IsInf(b) -> b
      [] a.d = 1 /\ b.d = 1 -> Int2Val(a.n + b.n)
      [] OTHER -> Rat(a.n * b.d + b.n * a.d, a.d * b.d)

Sub(a, b) == Add(a, Neg(b))

\* a < b on finite values.
LtFin(a, b) == a.n * b.d < b.n * a.d

RECURSIVE IPow(_, _)
IPow(b, e) == IF e = 0 THEN 1 ELSE b * IPow(b, e - 1)

IsInteger(a) == IsFin(a) /\ a.d = 1

\* np.exp, to base 2: exact where the argument is an integer, symbolic
\* (2^(n/d)) where it is not.
NpExp(a) ==
    CASE IsNaN(a) \/ IsPow(a) -> NaN
      [] IsInf(a) -> IF a.n > 0 THEN PosInf ELSE Zero
      [] IsInteger(a) ->
            IF a.n >= 0 THEN Int2Val(IPow(2, a.n)) ELSE Rat(1, IPow(2, -a.n))
      [] OTHER -> [k |-> "pow", n |-> a.n, d |-> a.d]

\* np.sinh, to base 2: (2^x - 2^-x) / 2.
NpSinh(a) ==
    CASE IsInf(a) -> a
      [] IsInteger(a) -> Div(Sub(NpExp(a), NpExp(Neg(a))), Int2Val(2))
      [] OTHER -> NaN

\* np.tanh, to base 2: (2^x - 2^-x) / (2^x + 2^-x).
NpTanh(a) ==
    CASE IsInf(a) -> Int2Val(a.n)
      [] IsInteger(a) -> Div(Sub(NpExp(a), NpExp(Neg(a))),
                             Add(NpExp(a), NpExp(Neg(a))))
      [] OTHER -> NaN

\* Sums and products of a sequence of values, left to right as numpy
\* reduces an axis.
RECURSIVE SumSeq(_)
SumSeq(s) == IF s = <<>> THEN Zero ELSE Add(Head(s), SumSeq(Tail(s)))

RECURSIVE ProdSeq(_)
ProdSeq(s) == IF s = <<>> THEN One ELSE Mul(Head(s), ProdSeq(Tail(s)))

----------------------------------------------------------------------------
(* occuprob.utils *)

\* Boltzmann constant (model units).
KB == 2

\* calc_beta with an "out" array of zeros: beta = 0 wherever T > 0 is false.
calc_beta_out_zeros(T) ==
    [m \in 1..Len(T) |->
        IF Gt0(T[m]) THEN Div(One, Mul(Int2Val(KB), T[m])) ELSE Zero]

\* calc_beta without the Boltzmann constant: 1/T where T > 0.
calc_beta_without_KB(T) ==
    [m \in 1..Len(T) |-> IF Gt0(T[m]) THEN Div(One, T[m]) ELSE PosInf]

\* utils.calc_beta: 1/(KB*T) where T > 0, and the +inf of the "out" array
\* wherever T > 0 is false (T = 0 and T < 0 alike).
calc_beta(T) ==
    [m \in 1..Len(T) |->
        IF Gt0(T[m]) THEN Div(One, Mul(Int2Val(KB), T[m])) ELSE PosInf]


\* utils.calc_exponent, imported by partitionfunctions.py (line 30) and defined
\* in no source file: the masked exponent of the specification, energy*beta
\* forced to 0 wherever energy <= 0.  energy is a 1-D array, the result has
\* one row per energy and one column per temperature.
calc_exponent(energy, T) ==
    LET beta == calc_beta(T)
    IN  [k \in 1..Len(energy) |->
            [m \in 1..Len(T) |->
                IF Gt0(energy[k]) THEN Mul(energy[k], beta[m]) ELSE Zero]]

\* The exponent inside utils.calc_exponential: energy*beta, the product being
\* the 0 of the "out" array wherever energy = 0 (energy != 0 is the mask, so a
\* negative energy is multiplied).
calc_exponential_exponent(energy, T) ==
    [k \in 1..Len(energy) |->
        [m \in 1..Len(T) |->
            IF Ne0(energy[k]) THEN Mul(energy[k], calc_beta(T)[m]) ELSE Zero]]

\* utils.calc_exponential: np.exp(exponent), for a 1-D energy array one row
\* per energy and one column per temperature.
calc_exponential(energy, T) ==
    [k \in 1..Len(energy) |->
        [m \in 1..Len(T) |-> NpExp(calc_exponential_exponent(energy, T)[k][m])]]

\* log to base 2 of a positive power of two, or of 2^(n/d).
RECURSIVE ILog2(_)
ILog2(i) == IF i <= 1 THEN 0 ELSE 1 + ILog2(i \div 2)

NpLog(a) ==
    CASE IsPow(a) -> Rat(a.n, a.d)
      [] IsFin(a) /\ a.n > 0 /\ a.d = 1 /\ IPow(2, ILog2(a.n)) = a.n ->
            Int2Val(ILog2(a.n))
      [] IsFin(a) /\ a.n = 1 /\ IPow(2, ILog2(a.d)) = a.d ->
            Int2Val(-ILog2(a.d))
      [] IsInf(a) /\ a.n > 0 -> PosInf
      [] IsFin(a) /\ a.n = 0 -> NegInf
      [] OTHER -> NaN

\* np.power(a, p) for an integer exponent p.
NpPower(a, p) ==
    CASE IsNaN(a) -> IF p = 0 THEN One ELSE NaN
      [] IsPow(a) -> NpExp(Mul(Rat(a.n, a.d), Int2Val(p)))
      [] IsInf(a) -> IF p = 0 THEN One ELSE IF p < 0 THEN Zero ELSE PosInf
      [] a.n = 0  -> IF p = 0 THEN One ELSE IF p < 0 THEN PosInf ELSE Zero
      [] OTHER    -> IF p >= 0 THEN Rat(IPow(a.n, p), IPow(a.d, p))
                     ELSE Rat(IPow(a.d, -p), IPow(a.n, -p))

\* calc_geometric_mean with an "out" array of zeros: the log of an entry that
\* is not > 0 is 0.
calc_geometric_mean_out_zeros(in_array) ==
    [k \in 1..Len(in_array) |->
        NpExp(Div(SumSeq([i \in 1..Len(in_array[k]) |->
                             IF Gt0(in_array[k][i]) THEN NpLog(in_array[k][i])
                             ELSE Zero]),
                  Int2Val(Len(in_array[k]))))]

\* utils.calc_geometric_mean: exp(mean(log(x))) of every row, the log of an
\* entry that is not > 0 being the -inf of the "out" array.
calc_geometric_mean(in_array) ==
    [k \in 1..Len(in_array) |->
        LET row  == in_array[k]
            logs == [i \in 1..Len(row) |->
                        IF Gt0(row[i]) THEN NpLog(row[i]) ELSE NegInf]
        IN  NpExp(Div(SumSeq(logs), Int2Val(Len(row))))]

----------------------------------------------------------------------------
(* occuprob.partitionfunctions *)

\* Planck's constant (model units).
H == 2

Amin(s) == CHOOSE x \in {s[i] : i \in 1..Len(s)} :
               \A i \in 1..Len(s) : ~LtFin(s[i], x)

\* A partition function object: one record shape for the four classes, the
\* attributes a class does not have being empty.
PFObject(kind) ==
    [kind |-> kind, potential_energy |-> <<>>, spin_multiplicity |-> <<>>,
     relative_energy |-> <<>>, symmetry_order |-> <<>>, moments |-> <<>>,
     frequencies |-> <<>>, n_vib |-> 0]

\* An ElectronicPF that keeps the absolute energies: relative_energy is
\* potential_energy itself.
ElectronicPF_absolute_energy(potential_energy, spin_multiplicity) ==
    [PFObject("ElectronicPF") EXCEPT
        !.potential_energy = potential_energy,
        !.spin_multiplicity = spin_multiplicity,
        !.relative_energy = potential_energy]

\* ElectronicPF.__init__ (np.amin of an empty array raises ValueError: the
\* callers guard Len(potential_energy) > 0).
ElectronicPF(potential_energy, spin_multiplicity) ==
    [PFObject("ElectronicPF") EXCEPT
        !.potential_energy = potential_energy,
        !.spin_multiplicity = spin_multiplicity,
        !.relative_energy =
            [k \in 1..Len(potential_energy) |->
                Sub(potential_energy[k], Amin(potential_energy))]]

\* RotationalPF.__init__: moments that are not > 0 are replaced by 1.
RotationalPF(symmetry_order, moments) ==
    [PFObject("RotationalPF") EXCEPT
        !.symmetry_order = symmetry_order,
        !.moments = [k \in 1..Len(moments) |->
                        [i \in 1..Len(moments[k]) |->
                            IF Gt0(moments[k][i]) THEN moments[k][i] ELSE One]]]

\* ClassicalHarmonicPF.__init__: n_vib is frequencies.shape[1].
ClassicalHarmonicPF(frequencies) ==
    [PFObject("ClassicalHarmonicPF") EXCEPT
        !.frequencies = frequencies,
        !.n_vib = IF frequencies = <<>> THEN 0 ELSE Len(frequencies[1])]

\* QuantumHarmonicPF.__init__ (the cast to long double changes no value here).
QuantumHarmonicPF(frequencies) ==
    [PFObject("QuantumHarmonicPF") EXCEPT !.frequencies = frequencies]

\* The number N of minima of a partition function object.
NMinima(pf) ==
    CASE pf.kind = "ElectronicPF" -> Len(pf.potential_energy)
      [] pf.kind = "RotationalPF" -> Len(pf.symmetry_order)
      [] OTHER                    -> Len(pf.frequencies)

\* calc_part_func without the spin multiplicity: exp(-exponent).
ElectronicPF_calc_part_func_without_spin(pf, T) ==
    LET exponent == calc_exponent(pf.relative_energy, T)
    IN  [k \in 1..Len(pf.relative_energy) |->
            [m \in 1..Len(T) |-> NpExp(Neg(exponent[k][m]))]]

\* ElectronicPF.calc_part_func: g_k * exp(-exponent).
ElectronicPF_calc_part_func(pf, T) ==
    LET exponent == calc_exponent(pf.relative_energy, T)
    IN  [k \in 1..Len(pf.relative_energy) |->
            [m \in 1..Len(T) |->
                Mul(NpExp(Neg(exponent[k][m])), pf.spin_multiplicity[k])]]

\* RotationalPF.calc_part_func: prod(moments) * ones_like(T) / symmetry_order.
RotationalPF_calc_part_func(pf, T) ==
    [k \in 1..Len(pf.symmetry_order) |->
        [m \in 1..Len(T) |->
            Div(Mul(ProdSeq(pf.moments[k]), One), pf.symmetry_order[k])]]

\* ClassicalHarmonicPF.calc_part_func: outer(gmean^(-n_vib), ones_like(T)).
ClassicalHarmonicPF_calc_part_func(pf, T) ==
    LET frequencies_gmean == calc_geometric_mean(pf.frequencies)
    IN  [k \in 1..Len(pf.frequencies) |->
            [m \in 1..Len(T) |->
                Mul(NpPower(frequencies_gmean[k], -pf.n_vib), One)]]

\* The exponent 0.5 * H * frequencies[k] * beta of minimum k, one row per mode.
QuantumExponent(pf, k, T) ==
    calc_exponent([i \in 1..Len(pf.frequencies[k]) |->
                      Mul(Mul(Rat(1, 2), Int2Val(H)), pf.frequencies[k][i])], T)

\* QuantumHarmonicPF.calc_part_func: the product over the modes of
\* 0.5 / sinh(exponent), the sinh being the 2 of the "out" array wherever
\* T > 0 is false.
QuantumHarmonicPF_calc_part_func(pf, T) ==
    [k \in 1..Len(pf.frequencies) |->
        LET exponent == QuantumExponent(pf, k, T)
        IN  [m \in 1..Len(T) |->
                ProdSeq([i \in 1..Len(pf.frequencies[k]) |->
                    Div(Rat(1, 2),
                        IF Gt0(T[m]) THEN NpSinh(exponent[i][m])
                        ELSE Int2Val(2))])]]

\* calc_part_func_w without the mask: -(beta * relative_energy) in every cell.
ElectronicPF_calc_part_func_w_unmasked(pf, T) ==
    [k \in 1..Len(pf.relative_energy) |->
        [m \in 1..Len(T) |-> Neg(Mul(calc_beta(T)[m], pf.relative_energy[k]))]]

\* ElectronicPF.calc_part_func_w: -(beta * relative_energy), the product being
\* the 0 of the "out" array wherever relative_energy = 0.
ElectronicPF_calc_part_func_w(pf, T) ==
    LET beta == calc_beta(T)
    IN  [k \in 1..Len(pf.relative_energy) |->
            [m \in 1..Len(T) |->
                Neg(IF Ne0(pf.relative_energy[k])
                    THEN Mul(beta[m], pf.relative_energy[k]) ELSE Zero)]]

\* calc_part_func_v as the other classes have it: -calc_part_func_w(T).
ElectronicPF_calc_part_func_v_minus_w(pf, T) ==
    [k \in 1..Len(pf.relative_energy) |->
        [m \in 1..Len(T) |-> Neg(ElectronicPF_calc_part_func_w(pf, T)[k][m])]]

\* ElectronicPF.calc_part_func_v: zeros_like(calc_part_func_w(T)).
ElectronicPF_calc_part_func_v(pf, T) ==
    [k \in 1..Len(pf.relative_energy) |-> [m \in 1..Len(T) |-> Zero]]

\* RotationalPF.calc_part_func_w: -1.5 in every cell.
RotationalPF_calc_part_func_w(pf, T) ==
    [k \in 1..Len(pf.symmetry_order) |-> [m \in 1..Len(T) |-> Rat(-3, 2)]]

\* calc_part_func_v without the change of sign: calc_part_func_w(T) itself.
RotationalPF_calc_part_func_v_same_sign(pf, T) ==
    RotationalPF_calc_part_func_w(pf, T)

\* RotationalPF.calc_part_func_v: -calc_part_func_w(T).
RotationalPF_calc_part_func_v(pf, T) ==
    LET W == RotationalPF_calc_part_func_w(pf, T)
    IN  [k \in 1..Len(W) |-> [m \in 1..Len(T) |-> Neg(W[k][m])]]

\* ClassicalHarmonicPF.calc_part_func_w: -n_vib in every cell.
ClassicalHarmonicPF_calc_part_func_w(pf, T) ==
    [k \in 1..Len(pf.frequencies) |-> [m \in 1..Len(T) |-> Int2Val(-pf.n_vib)]]

\* ClassicalHarmonicPF.calc_part_func_v: -calc_part_func_w(T).
ClassicalHarmonicPF_calc_part_func_v(pf, T) ==
    LET W == ClassicalHarmonicPF_calc_part_func_w(pf, T)
    IN  [k \in 1..Len(W) |-> [m \in 1..Len(T) |-> Neg(W[k][m])]]

\* QuantumHarmonicPF.calc_part_func_w: the sum over the modes of
\* exponent * (1 / tanh(exponent)), the product being the 0 of the "out"
\* array wherever T > 0 is false.
QuantumHarmonicPF_calc_part_func_w(pf, T) ==
    [k \in 1..Len(pf.frequencies) |->
        LET exponent == QuantumExponent(pf, k, T)
        IN  [m \in 1..Len(T) |->
                SumSeq([i \in 1..Len(pf.frequencies[k]) |->
                    IF Gt0(T[m])
                    THEN Mul(exponent[i][m], Div(One, NpTanh(exponent[i][m])))
                    ELSE Zero])]]

\* QuantumHarmonicPF.calc_part_func_v: the sum over the modes of
\* (exponent * (1 / sinh(exponent)))^2, masked in the same way.
QuantumHarmonicPF_calc_part_func_v(pf, T) ==
    [k \in 1..Len(pf.frequencies) |->
        LET exponent == QuantumExponent(pf, k, T)
        IN  [m \in 1..Len(T) |->
                SumSeq([i \in 1..Len(pf.frequencies[k]) |->
                    LET aux_v == IF Gt0(T[m])
                                 THEN Mul(exponent[i][m],
                                          Div(One, NpSinh(exponent[i][m])))
                                 ELSE Zero
                    IN  Mul(aux_v, aux_v)])]]

\* partition_function.calc_part_func(temperature), dispatched on the class.
calc_part_func(pf, T) ==
    CASE pf.kind = "ElectronicPF"        -> ElectronicPF_calc_part_func(pf, T)
      [] pf.kind = "RotationalPF"        -> RotationalPF_calc_part_func(pf, T)
      [] pf.kind = "ClassicalHarmonicPF" -> ClassicalHarmonicPF_calc_part_func(pf, T)
      [] pf.kind = "QuantumHarmonicPF"   -> QuantumHarmonicPF_calc_part_func(pf, T)

calc_part_func_w(pf, T) ==
    CASE pf.kind = "ElectronicPF"        -> ElectronicPF_calc_part_func_w(pf, T)
      [] pf.kind = "RotationalPF"        -> RotationalPF_calc_part_func_w(pf, T)
      [] pf.kind = "ClassicalHarmonicPF" -> ClassicalHarmonicPF_calc_part_func_w(pf, T)
      [] pf.kind = "QuantumHarmonicPF"   -> QuantumHarmonicPF_calc_part_func_w(pf, T)

calc_part_func_v(pf, T) ==
    CASE pf.kind = "ElectronicPF"        -> ElectronicPF_calc_part_func_v(pf, T)
      [] pf.kind = "RotationalPF"        -> RotationalPF_calc_part_func_v(pf, T)
      [] pf.kind = "ClassicalHarmonicPF" -> ClassicalHarmonicPF_calc_part_func_v(pf, T)
      [] pf.kind = "QuantumHarmonicPF"   -> QuantumHarmonicPF_calc_part_func_v(pf, T)


----------------------------------------------------------------------------
(* occuprob.superpositions *)

\* What a call gives back: a returned value or a raised exception.
NoneValue        == [type |-> "None", shape |-> <<>>, data |-> <<>>]
NdArray(sh, dat) == [type |-> "ndarray", shape |-> sh, data |-> dat]
Return(value)    == [raised |-> "none", ret |-> value]
Raise(exception) == [raised |-> exception, ret |-> NoneValue]

\* calc_partition_functions without the reduction over the stacked
\* contributions: the last contribution alone.
calc_partition_functions_of_last(pfs, T) ==
    IF pfs = <<>> THEN Return(NoneValue)
    ELSE Return(NdArray(<<NMinima(pfs[1]), Len(T)>>,
                        calc_part_func(pfs[Len(pfs)], T)))

\* SuperpositionApproximation.calc_partition_functions: None (after printing
\* a message) when nothing is registered, else the product over the
\* registered list of the stacked calc_part_func results.
calc_partition_functions(pfs, T) ==
    IF pfs = <<>> THEN Return(NoneValue)
    ELSE LET contributions == [j \in 1..Len(pfs) |-> calc_part_func(pfs[j], T)]
         IN  Return(NdArray(<<NMinima(pfs[1]), Len(T)>>,
                [k \in 1..NMinima(pfs[1]) |->
                    [m \in 1..Len(T) |->
                        ProdSeq([j \in 1..Len(pfs) |-> contributions[j][k][m]])]]))

\* The total of the first temperature, used for every column.
total_partition_function_of_first_column(Z, T) ==
    [m \in 1..Len(T) |-> SumSeq([k \in 1..Z.shape[1] |-> Z.data[k][1]])]

\* np.sum(partition_functions, axis=0), one total per temperature.
total_partition_function(Z, T) ==
    [m \in 1..Len(T) |-> SumSeq([k \in 1..Z.shape[1] |-> Z.data[k][m]])]

\* partition_functions / total_partition_function.  With partition_functions
\* = None, np.sum(None, axis=0) is None and None / None raises TypeError.
occupation_probability(Z, T) ==
    IF Z.type = "None" THEN Raise("TypeError")
    ELSE Return(NdArray(Z.shape,
            [k \in 1..Z.shape[1] |->
                [m \in 1..Len(T) |->
                    Div(Z.data[k][m], total_partition_function(Z, T)[m])]]))

\* SuperpositionApproximation.calc_probability: Z / sum_k Z.
calc_probability(pfs, T) ==
    occupation_probability(calc_partition_functions(pfs, T).ret, T)

\* SuperpositionApproximation.calc_ensemble_average:
\* sum_k observable[k] * P[k][m].
ensemble_average(probability, T, obs) ==
    IF probability.raised # "none" THEN probability
    ELSE Return(NdArray(<<Len(T)>>,
            [m \in 1..Len(T) |->
                SumSeq([k \in 1..probability.ret.shape[1] |->
                           Mul(obs[k], probability.ret.data[k][m])])]))

calc_ensemble_average(pfs, T, obs) ==
    ensemble_average(calc_probability(pfs, T), T, obs)

\* SuperpositionApproximation.calc_heat_capacity: np.exp(calc_probability(T)).
heat_capacity(probability, T) ==
    IF probability.raised # "none" THEN probability
    ELSE Return(NdArray(probability.ret.shape,
            [k \in 1..probability.ret.shape[1] |->
                [m \in 1..Len(T) |-> NpExp(probability.ret.data[k][m])]]))

calc_heat_capacity(pfs, T) ==
    heat_capacity(calc_probability(pfs, T), T)

----------------------------------------------------------------------------
(* occuprob.approximations *)

\* approximations.py has its own Boltzmann constant, the value of utils.KB.
approximations_KB == KB

\* np.argmin: the first index of the smallest element.
Argmin(s) == CHOOSE i \in 1..Len(s) :
                 /\ s[i] = Amin(s)
                 /\ \A j \in 1..(i - 1) : s[j] # Amin(s)

\* approximations.SuperpositionApproximation.__init__, through the subclass
\* ClassicalHarmonic, which adds no attribute.
ClassicalHarmonic(potential_energy, frequencies, symmetry_order) ==
    [kind |-> "ClassicalHarmonic",
     potential_energy |-> potential_energy,
     relative_energy |->
         [k \in 1..Len(potential_energy) |->
             Sub(potential_energy[k], Amin(potential_energy))],
     global_minimum_index |-> Argmin(potential_energy),
     frequencies |-> frequencies,
     symmetry_order |-> symmetry_order,
     degrees_of_freedom |-> Len(frequencies)]

\* The beta of ClassicalHarmonic.calc_probability: 1/(KB*T) where T > 0, the
\* inf of the out array elsewhere.
ClassicalHarmonic_beta(T) ==
    [m \in 1..Len(T) |->
        IF Gt0(T[m]) THEN Div(One, Mul(Int2Val(approximations_KB), T[m]))
        ELSE PosInf]

\* The exponent without its mask: relative_energy * beta in every cell.
ClassicalHarmonic_exponent_unmasked(self, beta) ==
    [k \in 1..Len(self.relative_energy) |->
        [m \in 1..Len(beta) |-> Mul(self.relative_energy[k], beta[m])]]

\* The exponent of ClassicalHarmonic.calc_probability: relative_energy * beta
\* where relative_energy > 0, the 0 of the out array elsewhere.
ClassicalHarmonic_exponent(self, beta) ==
    [k \in 1..Len(self.relative_energy) |->
        [m \in 1..Len(beta) |->
            IF Gt0(self.relative_energy[k])
            THEN Mul(self.relative_energy[k], beta[m])
            ELSE Zero]]

\* partition_functions = np.exp(-exponent).
ClassicalHarmonic_partition_functions(exponent) ==
    [k \in 1..Len(exponent) |->
        [m \in 1..Len(exponent[k]) |-> NpExp(Neg(exponent[k][m]))]]

\* occupation_probability = partition_functions / total_partition_function,
\* the total being the sum over the minima, column by column.
ClassicalHarmonic_occupation_probability(Z) ==
    [k \in 1..Len(Z) |->
        [m \in 1..Len(Z[k]) |->
            Div(Z[k][m],
                SumSeq([j \in 1..Len(Z) |->
                    Z[j][m]]))]]

\* A calc_probability that weights each minimum by 1/symmetry_order.
ClassicalHarmonic_calc_probability_with_symmetry(self, T) ==
    ClassicalHarmonic_occupation_probability(
        [k \in 1..Len(self.relative_energy) |->
            [m \in 1..Len(T) |->
                Div(ClassicalHarmonic_partition_functions(
                        ClassicalHarmonic_exponent(self,
                            ClassicalHarmonic_beta(T)))[k][m],
                    self.symmetry_order[k])]])

\* ClassicalHarmonic.calc_probability.
ClassicalHarmonic_calc_probability(self, T) ==
    ClassicalHarmonic_occupation_probability(
        ClassicalHarmonic_partition_functions(
            ClassicalHarmonic_exponent(self, ClassicalHarmonic_beta(T))))

----------------------------------------------------------------------------
(* The inputs *)

MaxMinima   == 2   \* minima of a landscape
MaxModes    == 1   \* vibrational modes of a minimum
MaxGrid     == 1   \* temperatures of a grid passed to a model
MaxContribs == 2   \* registered partition functions
MaxBetaGrid == 3   \* temperatures of a grid passed to calc_beta
MaxPFModes  == 2   \* vibrational modes of a partition function called alone
MaxPFGrid   == 2   \* temperatures of a grid passed to a partition function
MaxApproxMinima == 3  \* minima of a landscape of approximations.py
MaxApproxGrid   == 2  \* temperatures of a grid passed to ClassicalHarmonic
MaxGmRows   == 2   \* rows of an array passed to calc_geometric_mean
MaxGmCols   == 2   \* entries of a row passed to calc_geometric_mean
MaxTemp     == 2   \* largest --min_temp and --max_temp of a command line
MaxColumns  == 2   \* temperatures of a grid of several columns

Vals(S) == {Int2Val(i) : i \in S}

EnergyValues  == Vals({0, 1})
SpinValues    == Vals({1, 3})
FreqValues    == Vals({1, 2})
SymValues     == Vals({1, 3})
MomentTriples == {<<Zero, Int2Val(2), Int2Val(2)>>, <<One, One, Int2Val(2)>>}
ObsValues     == {One, PosInf}

\* The temperatures of a valid grid: T = 0, the finite T with KB*T = 1, and
\* T = inf.
GridValues == {Zero, Rat(1, KB), PosInf}
Grids      == UNION {[1..M -> GridValues] : M \in 1..MaxGrid}

\* The valid partition function objects of a landscape of N minima.
ElectronicPFs(N) ==
    {ElectronicPF(e, g) : e \in [1..N -> EnergyValues], g \in [1..N -> SpinValues]}
RotationalPFs(N) ==
    {RotationalPF(s, i) : s \in [1..N -> SymValues], i \in [1..N -> MomentTriples]}
FrequencyArrays(N) ==
    UNION {[1..N -> [1..D -> FreqValues]] : D \in 1..MaxModes}
ClassicalHarmonicPFs(N) == {ClassicalHarmonicPF(f) : f \in FrequencyArrays(N)}
QuantumHarmonicPFs(N)   == {QuantumHarmonicPF(f) : f \in FrequencyArrays(N)}
ValidPFs(N) ==
    ElectronicPFs(N) \cup RotationalPFs(N)
        \cup ClassicalHarmonicPFs(N) \cup QuantumHarmonicPFs(N)

\* The order in which cli.main appends the variants it is asked for.
Rank(pf) ==
    CASE pf.kind = "ElectronicPF"        -> 1
      [] pf.kind = "ClassicalHarmonicPF" -> 2
      [] pf.kind = "QuantumHarmonicPF"   -> 3
      [] pf.kind = "RotationalPF"        -> 4

\* The lists over a set of objects: at most MaxContribs of them, each
\* variant at most once, in the order of cli.main.
ListsOver(objects) ==
    {l \in UNION {[1..J -> objects] : J \in 1..MaxContribs} :
        \A i, j \in 1..Len(l) : i < j => Rank(l[i]) < Rank(l[j])}

\* The lists a model can hold: the contributions of one landscape.
ContributionLists(N) == ListsOver(ValidPFs(N))

----------------------------------------------------------------------------
(* The superposition model as a state machine *)

Unset  == [type |-> "unset", shape |-> <<>>, data |-> <<>>]
NoCall == [temperature |-> <<>>, ret |-> Unset, raised |-> "none", between |-> {}]
NoArgs == PFObject("none")

\* SuperpositionApproximation.__init__: the registered list starts empty.
Init ==
    /\ partition_functions = <<>>
    /\ call = "__init__"
    /\ args = NoArgs
    /\ temperature = <<>>
    /\ observable = <<>>
    /\ ret = Unset
    /\ raised = "none"
    /\ earlier = NoCall

\* model.partition_functions = [...]: the caller assigns the attribute once,
\* before any calculation, with a list such as cli.main builds.
AssignPartitionFunctions ==
    /\ call = "__init__"
    /\ partition_functions = <<>>
    /\ \E N \in 1..MaxMinima : \E pfs \in ContributionLists(N) :
           partition_functions' = pfs
    /\ UNCHANGED <<call, args, temperature, observable, ret, raised, earlier>>

\* One more call made after the remembered one.
Later(e, name) ==
    IF e = NoCall THEN e ELSE [e EXCEPT !.between = @ \cup {name}]

\* A call that leaves zeros in the temperature array of its caller.
Called_zeroing_temperature(name, T, obs, outcome) ==
    /\ call' = name
    /\ temperature' = [m \in 1..Len(T) |-> Zero]
    /\ observable' = obs
    /\ ret' = outcome.ret
    /\ raised' = outcome.raised
    /\ earlier' = Later(earlier, name)
    /\ UNCHANGED <<partition_functions, args>>

\* A call of a calc_* method and its outcome: nothing but the result, and
\* what the caller remembers, changes.
Called(name, T, obs, outcome) ==
    /\ call' = name
    /\ temperature' = T
    /\ observable' = obs
    /\ ret' = outcome.ret
    /\ raised' = outcome.raised
    /\ earlier' = Later(earlier, name)
    /\ UNCHANGED <<partition_functions, args>>

CalcPartitionFunctions(T) ==
    Called("calc_partition_functions", T, <<>>,
           calc_partition_functions(partition_functions, T))

CalcProbability(T) ==
    Called("calc_probability", T, <<>>,
           calc_probability(partition_functions, T))

CalcEnsembleAverage(T, obs) ==
    Called("calc_ensemble_average", T, obs,
           calc_ensemble_average(partition_functions, T, obs))

\* A calc_heat_capacity that also empties the registered list.
CalcHeatCapacity_clearing(T) ==
    LET outcome == calc_heat_capacity(partition_functions, T)
    IN  /\ call' = "calc_heat_capacity"
        /\ temperature' = T
        /\ observable' = <<>>
        /\ ret' = outcome.ret
        /\ raised' = outcome.raised
        /\ earlier' = Later(earlier, "calc_heat_capacity")
        /\ partition_functions' = <<>>
        /\ UNCHANGED args

CalcHeatCapacity(T) ==
    Called("calc_heat_capacity", T, <<>>,
           calc_heat_capacity(partition_functions, T))

\* The number of minima of the model (of the observable passed to it).
ModelMinima ==
    IF partition_functions = <<>> THEN 1..MaxMinima
    ELSE {NMinima(partition_functions[1])}

\* The calc_* methods, called with a grid of a set of grids.
CallsOn(grids) ==
    \/ \E T \in grids : CalcPartitionFunctions(T)
    \/ \E T \in grids : CalcProbability(T)
    \/ \E T \in grids : \E N \in ModelMinima : \E obs \in [1..N -> ObsValues] :
           CalcEnsembleAverage(T, obs)
    \/ \E T \in grids : CalcHeatCapacity(T)

Next ==
    \/ AssignPartitionFunctions
    \/ CallsOn(Grids)

Spec == Init /\ [][Next]_vars

----------------------------------------------------------------------------
(* A caller that keeps a result of calc_probability and calls again *)

\* The contributions of one landscape of two minima: two electronic ones (of
\* different and of equal energies), a classical and a quantum vibrational
\* one and a rotational one.
LandscapeObjects ==
    {ElectronicPF(<<Zero, One>>, <<One, Int2Val(3)>>),
     ElectronicPF(<<Zero, Zero>>, <<One, Int2Val(3)>>),
     ClassicalHarmonicPF(<<<<One>>, <<Int2Val(2)>>>>),
     QuantumHarmonicPF(<<<<One>>, <<Int2Val(2)>>>>),
     RotationalPF(<<Int2Val(3), One>>,
                  <<<<Zero, Int2Val(2), Int2Val(2)>>, <<One, One, Int2Val(2)>>>>)}

\* A model that is constructed, with its list assigned or left empty.
InitCalls ==
    /\ partition_functions \in ListsOver(LandscapeObjects) \cup {<<>>}
    /\ call = "__init__"
    /\ args = NoArgs
    /\ temperature = <<>>
    /\ observable = <<>>
    /\ ret = Unset
    /\ raised = "none"
    /\ earlier = NoCall

\* The caller keeps the outcome of the calc_probability call just made.
Remember ==
    /\ call = "calc_probability"
    /\ earlier' = [temperature |-> temperature, ret |-> ret,
                   raised |-> raised, between |-> {}]
    /\ earlier' # earlier
    /\ UNCHANGED <<partition_functions, call, args, temperature, observable,
                   ret, raised>>

\* The grids of this caller hold one temperature.
OneTemperatureGrids == {<<t>> : t \in GridValues}

NextCalls ==
    \/ CallsOn(OneTemperatureGrids)
    \/ Remember

SpecCalls == InitCalls /\ [][NextCalls]_vars

----------------------------------------------------------------------------
(* A model called on grids of several temperatures *)

ColumnGrids == UNION {[1..M -> GridValues] : M \in 1..MaxColumns}

\* A caller that makes one call on the model it has just built.
NextColumns ==
    /\ call = "__init__"
    /\ CallsOn(ColumnGrids)

SpecColumns == InitCalls /\ [][NextColumns]_vars

----------------------------------------------------------------------------
(* A partition function object called on its own *)

\* The partition function objects of a landscape of N minima, the vibrational
\* ones with up to MaxPFModes modes.
PFFrequencyArrays(N) ==
    UNION {[1..N -> [1..D -> FreqValues]] : D \in 1..MaxPFModes}
PFObjects(N) ==
    ElectronicPFs(N) \cup RotationalPFs(N)
        \cup {ClassicalHarmonicPF(f) : f \in PFFrequencyArrays(N)}
        \cup {QuantumHarmonicPF(f) : f \in PFFrequencyArrays(N)}

PFGrids == UNION {[1..M -> GridValues] : M \in 1..MaxPFGrid}

\* The object is constructed (args holds it) and none of its methods has been
\* called.
InitPF ==
    /\ partition_functions = <<>>
    /\ call = "__init__"
    /\ \E N \in 1..MaxMinima : args \in PFObjects(N)
    /\ temperature = <<>>
    /\ observable = <<>>
    /\ ret = Unset
    /\ raised = "none"
    /\ earlier = NoCall

\* A method of the object is called with a grid and returns an (N, M) array.
PFCalled(name, T, value) ==
    /\ call = "__init__"
    /\ call' = name
    /\ temperature' = T
    /\ ret' = NdArray(<<NMinima(args), Len(T)>>, value)
    /\ raised' = "none"
    /\ UNCHANGED <<partition_functions, args, observable, earlier>>

CalcPartFunc ==
    \E T \in PFGrids : PFCalled("calc_part_func", T, calc_part_func(args, T))

CalcPartFuncW ==
    \E T \in PFGrids : PFCalled("calc_part_func_w", T, calc_part_func_w(args, T))

CalcPartFuncV ==
    \E T \in PFGrids : PFCalled("calc_part_func_v", T, calc_part_func_v(args, T))

NextPF ==
    \/ CalcPartFunc
    \/ CalcPartFuncW
    \/ CalcPartFuncV

SpecPF == InitPF /\ [][NextPF]_vars

----------------------------------------------------------------------------
(* utils.calc_beta called on its own *)

\* The temperatures passed to calc_beta: a negative one, 0, the finite T with
\* KB*T = 1, T = 1 and T = inf.
BetaGridValues == {Int2Val(-1), Zero, Rat(1, KB), One, PosInf}
BetaGrids      == UNION {[1..M -> BetaGridValues] : M \in 1..MaxBetaGrid}

\* The caller holds a temperature array and has called nothing yet.
InitBeta ==
    /\ partition_functions = <<>>
    /\ call = "none"
    /\ args = NoArgs
    /\ temperature \in BetaGrids
    /\ observable = <<>>
    /\ ret = Unset
    /\ raised = "none"
    /\ earlier = NoCall

\* beta = calc_beta(temperature): no check of the input, no raise.
CalcBeta ==
    /\ call = "none"
    /\ call' = "calc_beta"
    /\ ret' = NdArray(<<Len(temperature)>>, calc_beta(temperature))
    /\ raised' = "none"
    /\ UNCHANGED <<partition_functions, args, temperature, observable, earlier>>

NextBeta == CalcBeta

SpecBeta == InitBeta /\ [][NextBeta]_vars

----------------------------------------------------------------------------
(* utils.calc_exponential called on its own *)

\* The energies passed to calc_exponential (a negative one, 0 and one with
\* energy*beta = 1 at KB*T = 1) and the temperatures (none negative).
ExpEnergyValues == Vals({-1, 0, 1})
ExpGridValues   == {Zero, Rat(1, KB), One, PosInf}
ExpEnergies     == UNION {[1..N -> ExpEnergyValues] : N \in 1..MaxMinima}
ExpGrids        == UNION {[1..M -> ExpGridValues] : M \in 1..MaxBetaGrid}

\* The caller holds an energy array and a temperature array.
InitExponential ==
    /\ partition_functions = <<>>
    /\ call = "none"
    /\ \E energy \in ExpEnergies :
          args = [PFObject("calc_exponential") EXCEPT !.potential_energy = energy]
    /\ temperature \in ExpGrids
    /\ observable = <<>>
    /\ ret = Unset
    /\ raised = "none"
    /\ earlier = NoCall

\* exponential = calc_exponential(energy, temperature).
CalcExponential ==
    /\ call = "none"
    /\ call' = "calc_exponential"
    /\ ret' = NdArray(<<Len(args.potential_energy), Len(temperature)>>,
                      calc_exponential(args.potential_energy, temperature))
    /\ raised' = "none"
    /\ UNCHANGED <<partition_functions, args, temperature, observable, earlier>>

NextExponential == CalcExponential

SpecExponential == InitExponential /\ [][NextExponential]_vars

----------------------------------------------------------------------------
(* utils.calc_geometric_mean called on its own *)

\* The (N, D) arrays passed to calc_geometric_mean: zeros and powers of two.
GmValues == Vals({0, 1, 2, 4})
GmArrays(N, D) == [1..N -> [1..D -> GmValues]]

\* The caller holds a 2-D array.
InitGeometricMean ==
    /\ partition_functions = <<>>
    /\ call = "none"
    /\ \E N \in 1..MaxGmRows : \E D \in 1..MaxGmCols :
          \E in_array \in GmArrays(N, D) :
              args = [PFObject("calc_geometric_mean") EXCEPT
                         !.frequencies = in_array]
    /\ temperature = <<>>
    /\ observable = <<>>
    /\ ret = Unset
    /\ raised = "none"
    /\ earlier = NoCall

\* geometric_mean = calc_geometric_mean(in_array).
CalcGeometricMean ==
    /\ call = "none"
    /\ call' = "calc_geometric_mean"
    /\ ret' = NdArray(<<Len(args.frequencies)>>,
                      calc_geometric_mean(args.frequencies))
    /\ raised' = "none"
    /\ UNCHANGED <<partition_functions, args, temperature, observable, earlier>>

NextGeometricMean == CalcGeometricMean

SpecGeometricMean == InitGeometricMean /\ [][NextGeometricMean]_vars

----------------------------------------------------------------------------
(* approximations.ClassicalHarmonic called on its own *)

ApproxObjects(N) ==
    {ClassicalHarmonic(e, f, s) :
        e \in [1..N -> EnergyValues],
        f \in [1..N -> [1..1 -> FreqValues]],
        s \in [1..N -> SymValues]}

ApproxGrids == UNION {[1..M -> GridValues] : M \in 1..MaxApproxGrid}

InitApprox ==
    /\ partition_functions = <<>>
    /\ call = "__init__"
    /\ \E N \in 1..MaxApproxMinima : args \in ApproxObjects(N)
    /\ temperature = <<>>
    /\ observable = <<>>
    /\ ret = Unset
    /\ raised = "none"
    /\ earlier = NoCall

\* landscape.calc_probability(temperature).
ApproxCalcProbability ==
    /\ call = "__init__"
    /\ \E T \in ApproxGrids :
          /\ temperature' = T
          /\ ret' = NdArray(<<Len(args.relative_energy), Len(T)>>,
                            ClassicalHarmonic_calc_probability(args, T))
    /\ call' = "calc_probability"
    /\ raised' = "none"
    /\ UNCHANGED <<partition_functions, args, observable, earlier>>

NextApprox == ApproxCalcProbability

SpecApprox == InitApprox /\ [][NextApprox]_vars


----------------------------------------------------------------------------
(* The constructors called on their own *)

\* A constructed object, as a returned value.
Object(obj) == [type |-> "object", shape |-> <<>>, data |-> obj]

\* The arrays passed to a constructor, valid or not: frequencies and symmetry
\* orders that are not positive, and landscapes of no minimum (an empty
\* frequencies array has the shape (0, 0)).
CtorFreqValues == Vals({-1, 0, 1})
CtorSymValues  == Vals({0, 1})
CtorFrequencyArrays(N) ==
    IF N = 0 THEN {<<>>}
    ELSE UNION {[1..N -> [1..D -> CtorFreqValues]] : D \in 1..MaxModes}

\* The arguments of one constructor call, for a landscape of N minima: the
\* class and its arrays.
CtorArgs(N) ==
    {[PFObject("ElectronicPF") EXCEPT
          !.potential_energy = e, !.spin_multiplicity = g] :
        e \in [1..N -> EnergyValues], g \in [1..N -> SpinValues]}
    \cup
    {[PFObject("RotationalPF") EXCEPT !.symmetry_order = s, !.moments = i] :
        s \in [1..N -> CtorSymValues], i \in [1..N -> MomentTriples]}
    \cup
    {[PFObject(c) EXCEPT !.frequencies = f] :
        c \in {"ClassicalHarmonicPF", "QuantumHarmonicPF"},
        f \in CtorFrequencyArrays(N)}
    \cup
    {[PFObject(c) EXCEPT
          !.potential_energy = e, !.frequencies = f, !.symmetry_order = s,
          !.spin_multiplicity = [k \in 1..N |-> One]] :
        c \in {"SuperpositionApproximation", "ClassicalHarmonicSA",
               "QuantumHarmonicSA"},
        e \in [1..N -> EnergyValues], f \in CtorFrequencyArrays(N),
        s \in [1..N -> CtorSymValues]}

\* The caller holds the arguments and has constructed nothing yet.
InitCtor ==
    /\ partition_functions = <<>>
    /\ call = "none"
    /\ \E N \in 0..MaxMinima : args \in CtorArgs(N)
    /\ temperature = <<>>
    /\ observable = <<>>
    /\ ret = Unset
    /\ raised = "none"
    /\ earlier = NoCall

Constructed(class, outcome) ==
    /\ call = "none"
    /\ args.kind = class
    /\ call' = class
    /\ ret' = outcome.ret
    /\ raised' = outcome.raised
    /\ UNCHANGED <<args, temperature, observable, earlier>>

\* ElectronicPF(potential_energy, spin_multiplicity): np.amin of an empty
\* array raises ValueError; nothing else is checked.
NewElectronicPF ==
    /\ Constructed("ElectronicPF",
          IF args.potential_energy = <<>> THEN Raise("ValueError")
          ELSE Return(Object(ElectronicPF(args.potential_energy,
                                          args.spin_multiplicity))))
    /\ UNCHANGED partition_functions

\* RotationalPF(symmetry_order, moments): nothing is checked.
NewRotationalPF ==
    /\ Constructed("RotationalPF",
          Return(Object(RotationalPF(args.symmetry_order, args.moments))))
    /\ UNCHANGED partition_functions

\* ClassicalHarmonicPF(frequencies): nothing is checked.
NewClassicalHarmonicPF ==
    /\ Constructed("ClassicalHarmonicPF",
          Return(Object(ClassicalHarmonicPF(args.frequencies))))
    /\ UNCHANGED partition_functions

\* QuantumHarmonicPF(frequencies): nothing is checked.
NewQuantumHarmonicPF ==
    /\ Constructed("QuantumHarmonicPF",
          Return(Object(QuantumHarmonicPF(args.frequencies))))
    /\ UNCHANGED partition_functions

\* SuperpositionApproximation(potential_energy, frequencies, symmetry_order,
\* spin_multiplicity): the four arrays are stored as they are and the
\* registered list is empty.
NewSuperpositionApproximation ==
    /\ Constructed("SuperpositionApproximation", Return(Object(args)))
    /\ partition_functions' = <<>>

\* ClassicalHarmonicSA(...) and QuantumHarmonicSA(...): after the constructor
\* of the base class, pf.ElectronicPF is called with three arguments and
\* raises TypeError, whatever the arrays.
NewClassicalHarmonicSA ==
    /\ Constructed("ClassicalHarmonicSA", Raise("TypeError"))
    /\ partition_functions' = <<>>

NewQuantumHarmonicSA ==
    /\ Constructed("QuantumHarmonicSA", Raise("TypeError"))
    /\ partition_functions' = <<>>

NextCtor ==
    \/ NewElectronicPF
    \/ NewRotationalPF
    \/ NewClassicalHarmonicPF
    \/ NewQuantumHarmonicPF
    \/ NewSuperpositionApproximation
    \/ NewClassicalHarmonicSA
    \/ NewQuantumHarmonicSA

SpecCtor == InitCtor /\ [][NextCtor]_vars

----------------------------------------------------------------------------
(* occuprob.cli: one run of the command line *)

\* The dictionaries io.load_properties_from_extxyz returns: a landscape of
\* one minimum and one of two minima.
Properties ==
    {[energy |-> <<Zero>>, multiplicity |-> <<One>>,
      frequencies |-> <<<<One>>>>,
      moments |-> <<<<One, One, Int2Val(2)>>>>, symmetry |-> <<One>>],
     [energy |-> <<Zero, One>>, multiplicity |-> <<One, Int2Val(3)>>,
      frequencies |-> <<<<One>>, <<Int2Val(2)>>>>,
      moments |-> <<<<Zero, Int2Val(2), Int2Val(2)>>, <<One, One, Int2Val(2)>>>>,
      symmetry |-> <<Int2Val(3), One>>]}

\* The namespaces parser.parse_args() returns, with the properties read from
\* the input file: -e and -s exclude each other, and so do -v and -q.
CommandLines ==
    {a \in [e : BOOLEAN, s : BOOLEAN, v : BOOLEAN, q : BOOLEAN, r : BOOLEAN,
            input_file : {"in.xyz"}, output : {"", "out"}, plot : BOOLEAN,
            min_temp : Vals(0..MaxTemp), max_temp : Vals(0..MaxTemp),
            properties : Properties] :
        ~(a.e /\ a.s) /\ ~(a.v /\ a.q)}

\* The smallest integer that is not below the finite value a.
Ceil(a) == -((-a.n) \div a.d)

\* np.arange(start, stop, 1.): start, start + 1, ... below stop.
np_arange(start, stop) ==
    LET n == Ceil(Sub(stop, start))
    IN  [i \in 1..(IF n > 0 THEN n ELSE 0) |-> Add(start, Int2Val(i - 1))]

\* np.ones_like of a 1D array.
np_ones_like(a) == [k \in 1..Len(a) |-> One]

\* The list main builds from the flags, in the order of its appends.
main_partition_functions(a) ==
    (IF a.e THEN <<ElectronicPF(a.properties.energy,
                                np_ones_like(a.properties.energy))>>
     ELSE <<>>)
    \o (IF a.s THEN <<ElectronicPF(a.properties.energy,
                                   a.properties.multiplicity)>>
        ELSE <<>>)
    \o (IF a.v THEN <<ClassicalHarmonicPF(a.properties.frequencies)>> ELSE <<>>)
    \o (IF a.q THEN <<QuantumHarmonicPF(a.properties.frequencies)>> ELSE <<>>)
    \o (IF a.r THEN <<RotationalPF(a.properties.symmetry,
                                   a.properties.moments)>>
        ELSE <<>>)

\* A call of the class of superpositions.py with the given positional
\* arguments: __init__ takes potential_energy, frequencies, symmetry_order
\* and spin_multiplicity, and a call with another number of arguments raises
\* TypeError.
SuperpositionApproximation(positional) ==
    IF Len(positional) # 4 THEN Raise("TypeError")
    ELSE Return(Object([PFObject("SuperpositionApproximation") EXCEPT
            !.potential_energy = positional[1],
            !.frequencies = positional[2],
            !.symmetry_order = positional[3],
            !.spin_multiplicity = positional[4]]))

\* The name of the file of one result: the --output prefix, or the name of
\* the input file with '.xyz' replaced, then '_' and the key.
outfile(a, key) ==
    (IF a.output # "" THEN a.output ELSE "in") \o "_" \o key

\* The files a run that reaches its loop writes: a .dat for each key and,
\* with --plot, a .pdf.
main_files(a) ==
    UNION {{outfile(a, key) \o ".dat"} \cup
           (IF a.plot THEN {outfile(a, key) \o ".pdf"} ELSE {})
           : key \in {"p", "c"}}

Exit(list, T, exception, files) ==
    [partition_functions |-> list, temperature |-> T, raised |-> exception,
     written |-> files]

\* The rest of main once the model is constructed: the grid, the two
\* results of the model (whose registered list __init__ left empty) and the
\* files.
main_results(a, list, T) ==
    IF calc_probability(<<>>, T).raised # "none"
    THEN Exit(list, T, calc_probability(<<>>, T).raised, {})
    ELSE IF calc_heat_capacity(<<>>, T).raised # "none"
    THEN Exit(list, T, calc_heat_capacity(<<>>, T).raised, {})
    ELSE Exit(list, T, "none", main_files(a))

\* cli.main after parse_args: with an empty list it prints a message; else
\* it calls SuperpositionApproximation(partition_functions), which ends the
\* run with the exception of that call.
main_with(a, list) ==
    IF list = <<>> THEN Exit(list, <<>>, "none", {})
    ELSE IF SuperpositionApproximation(<<list>>).raised # "none"
    THEN Exit(list, <<>>, SuperpositionApproximation(<<list>>).raised, {})
    ELSE main_results(a, list, np_arange(a.min_temp, Add(a.max_temp, One)))

main(a) == main_with(a, main_partition_functions(a))

InitMain ==
    /\ partition_functions = <<>>
    /\ call = "parse_args"
    /\ args \in CommandLines
    /\ temperature = <<>>
    /\ observable = <<>>
    /\ ret = Unset
    /\ raised = "none"
    /\ earlier = NoCall

\* One run of main: the list it built, the grid it made, the exception that
\* ended it and the files it wrote.
Main ==
    /\ call = "parse_args"
    /\ call' = "main"
    /\ partition_functions' = main(args).partition_functions
    /\ temperature' = main(args).temperature
    /\ raised' = main(args).raised
    /\ ret' = [type |-> "files", shape |-> <<>>, data |-> main(args).written]
    /\ UNCHANGED <<args, observable, earlier>>

NextMain == Main

SpecMain == InitMain /\ [][NextMain]_vars

----------------------------------------------------------------------------
(* What the claims speak of *)

CalcNames == {"calc_partition_functions", "calc_probability",
              "calc_ensemble_average", "calc_heat_capacity"}

Minima  == 1..NMinima(partition_functions[1])
Columns == 1..Len(temperature)

\* The call returned an N x M array.
ReturnedMatrix ==
    /\ raised = "none"
    /\ ret.type = "ndarray"
    /\ ret.shape = <<NMinima(partition_functions[1]), Len(temperature)>>

ColumnSum(m) == SumSeq([k \in Minima |-> ret.data[k][m]])

ElectronicOnes == {j \in 1..Len(partition_functions) :
                      partition_functions[j].kind = "ElectronicPF"}
HasElectronic  == ElectronicOnes # {}
TheElectronic  == partition_functions[CHOOSE j \in ElectronicOnes : TRUE]

\* Minima k and j differ at most in energy and spin multiplicity: the same
\* frequencies, symmetry order and moments.
SameShape(k, j) ==
    \A i \in 1..Len(partition_functions) :
        LET pf == partition_functions[i]
        IN  CASE pf.kind = "ElectronicPF" -> TRUE
              [] pf.kind = "RotationalPF" ->
                    /\ pf.symmetry_order[k] = pf.symmetry_order[j]
                    /\ pf.moments[k] = pf.moments[j]
              [] OTHER -> pf.frequencies[k] = pf.frequencies[j]

\* C1: for every model with at least one registered contribution and every
\* grid entry T > 0, the column of calc_probability(T) sums to 1.
C1_ColumnsSumToOne ==
    (call = "calc_probability" /\ partition_functions # <<>>) =>
        /\ ReturnedMatrix
        /\ \A m \in Columns : Gt0(temperature[m]) => ColumnSum(m) = One

\* C2, as claimed: at T = 0 the minima with relative_energy = 0 get equal
\* probability mass summing to 1 and every other minimum gets exactly 0,
\* whatever the spin multiplicities, frequencies and symmetry orders.
C2_EqualSplitAtZero ==
    (call = "calc_probability" /\ HasElectronic) =>
        /\ ReturnedMatrix
        /\ \A m \in Columns : temperature[m] = Zero =>
              LET E == TheElectronic.relative_energy
              IN  /\ ColumnSum(m) = One
                  /\ \A k \in Minima : Gt0(E[k]) => ret.data[k][m] = Zero
                  /\ \A k, j \in Minima :
                        (E[k] = Zero /\ E[j] = Zero) =>
                            ret.data[k][m] = ret.data[j][m]

\* C2, amended: at T = 0 a model with an electronic contribution gives every
\* minimum with relative_energy > 0 exactly 0 and the minima with
\* relative_energy = 0 mass summing to 1 (a unique global minimum exactly 1);
\* tied minima with the same frequencies, symmetry order and moments share it
\* in proportion to their spin multiplicities, so equally when these are equal.
C2_WeightedSplitAtZero ==
    (call = "calc_probability" /\ HasElectronic) =>
        /\ ReturnedMatrix
        /\ \A m \in Columns : temperature[m] = Zero =>
              LET E == TheElectronic.relative_energy
                  g == TheElectronic.spin_multiplicity
              IN  /\ ColumnSum(m) = One
                  /\ \A k \in Minima : Gt0(E[k]) => ret.data[k][m] = Zero
                  /\ \A k \in Minima :
                        (\A j \in Minima \ {k} : Gt0(E[j])) =>
                            ret.data[k][m] = One
                  /\ \A k, j \in Minima :
                        (E[k] = Zero /\ E[j] = Zero /\ SameShape(k, j)) =>
                            /\ Mul(ret.data[k][m], g[j]) = Mul(ret.data[j][m], g[k])
                            /\ g[k] = g[j] => ret.data[k][m] = ret.data[j][m]

\* Two tied minima of different spin multiplicity got different probabilities
\* at T = 0.
C2_Witness ==
    /\ call = "calc_probability"
    /\ HasElectronic
    /\ ReturnedMatrix
    /\ \E m \in Columns : \E k, j \in Minima :
          /\ temperature[m] = Zero
          /\ TheElectronic.relative_energy[k] = Zero
          /\ TheElectronic.relative_energy[j] = Zero
          /\ TheElectronic.spin_multiplicity[k] # TheElectronic.spin_multiplicity[j]
          /\ SameShape(k, j)
          /\ ret.data[k][m] # ret.data[j][m]
          /\ ret.data[k][m] # Zero

\* C3: at T = inf the electronic contribution is the spin multiplicity of
\* every minimum, whatever its energy, and in an electronic-only model the
\* probability of minimum k is g_k / sum_j g_j.
C3_ElectronicAtInfinity ==
    (/\ call \in {"calc_partition_functions", "calc_probability"}
     /\ Len(partition_functions) = 1
     /\ HasElectronic) =>
        /\ ReturnedMatrix
        /\ \A m \in Columns : temperature[m] = PosInf =>
              LET g == TheElectronic.spin_multiplicity
              IN  \A k \in Minima :
                    IF call = "calc_partition_functions"
                    THEN ret.data[k][m] = g[k]
                    ELSE ret.data[k][m] = Div(g[k], SumSeq(g))

\* An electronic-only model of two minima of different energy and spin
\* multiplicity 1 and 3 gave the second one 3/4 at T = inf.
C3_Witness ==
    /\ call = "calc_probability"
    /\ Len(partition_functions) = 1
    /\ HasElectronic
    /\ TheElectronic.relative_energy = <<Zero, One>>
    /\ TheElectronic.spin_multiplicity = <<One, Int2Val(3)>>
    /\ temperature = <<PosInf>>
    /\ raised = "none"
    /\ ret.data = <<<<Rat(1, 4)>>, <<Rat(3, 4)>>>>

\* The heat capacity of the specification: <V> + <W^2> - <W>^2, W and V the
\* sums over the contributions of calc_part_func_w and calc_part_func_v and
\* <.> the probability-weighted sum over the minima.
FluctuationHeatCapacity(pfs, T) ==
    LET P  == calc_probability(pfs, T).ret.data
        N  == NMinima(pfs[1])
        W  == [k \in 1..N |-> [m \in 1..Len(T) |->
                 SumSeq([j \in 1..Len(pfs) |-> calc_part_func_w(pfs[j], T)[k][m]])]]
        V  == [k \in 1..N |-> [m \in 1..Len(T) |->
                 SumSeq([j \in 1..Len(pfs) |-> calc_part_func_v(pfs[j], T)[k][m]])]]
        Avg(X, m) == SumSeq([k \in 1..N |-> Mul(X[k][m], P[k][m])])
        W2 == [k \in 1..N |-> [m \in 1..Len(T) |-> Mul(W[k][m], W[k][m])]]
    IN  [m \in 1..Len(T) |->
            Sub(Add(Avg(V, m), Avg(W2, m)), Mul(Avg(W, m), Avg(W, m)))]

\* C4: calc_heat_capacity(T) returns one value per temperature, equal to
\* <V> + <W^2> - <W>^2.
C4_HeatCapacityIsFluctuation ==
    (call = "calc_heat_capacity" /\ partition_functions # <<>>) =>
        /\ raised = "none"
        /\ ret.type = "ndarray"
        /\ ret.shape = <<Len(temperature)>>
        /\ ret.data = FluctuationHeatCapacity(partition_functions, temperature)

\* C5: a calc_* call on a model with no registered contribution fails with a
\* ConfigurationError; it returns nothing.
C5_EmptyModelRaises ==
    (call \in CalcNames /\ partition_functions = <<>>) =>
        raised = "ConfigurationError"

\* C6: calc_partition_functions and calc_probability on a grid with T = 0 or
\* T = inf neither raise nor return NaN in any cell.
C6_NoNaNAtTheEdges ==
    (/\ call \in {"calc_partition_functions", "calc_probability"}
     /\ partition_functions # <<>>
     /\ \E m \in Columns : temperature[m] \in {Zero, PosInf}) =>
        /\ ReturnedMatrix
        /\ \A k \in Minima : \A m \in Columns : ~IsNaN(ret.data[k][m])

Constructors == {"ElectronicPF", "RotationalPF", "ClassicalHarmonicPF",
                 "QuantumHarmonicPF", "SuperpositionApproximation",
                 "ClassicalHarmonicSA", "QuantumHarmonicSA"}

\* The arguments of the constructor hold a frequency or a symmetry order that
\* is not positive, or a landscape of no minimum.
InvalidArgs ==
    \/ \E k \in 1..Len(args.frequencies) :
          \E i \in 1..Len(args.frequencies[k]) : ~Gt0(args.frequencies[k][i])
    \/ \E k \in 1..Len(args.symmetry_order) : ~Gt0(args.symmetry_order[k])
    \/ /\ args.potential_energy = <<>>
       /\ args.symmetry_order = <<>>
       /\ args.frequencies = <<>>

\* C8: a constructor called with a non-positive frequency, a non-positive
\* symmetry order or an empty set of minima raises DomainError.
C8_InvalidArgsRejected ==
    (call \in Constructors /\ InvalidArgs) => raised = "DomainError"

\* C9: calc_beta rejects every grid that contains a negative temperature with
\* a DomainError; it returns no beta for T < 0.
C9_NegativeTemperatureRejected ==
    (call = "calc_beta" /\ \E m \in Columns : Lt0(temperature[m])) =>
        raised = "DomainError"

\* C10: on a grid of non-negative temperatures calc_beta returns, entry by
\* entry, 1/(KB*T) for T > 0 (0 for T = inf) and +inf for T = 0; it does not
\* raise and returns no NaN.
C10_BetaOfTemperature ==
    (call = "calc_beta" /\ \A m \in Columns : ~Lt0(temperature[m])) =>
        /\ raised = "none"
        /\ ret.type = "ndarray"
        /\ ret.shape = <<Len(temperature)>>
        /\ \A m \in Columns :
              /\ ~IsNaN(ret.data[m])
              /\ (Gt0(temperature[m]) /\ IsFin(temperature[m])) =>
                    /\ IsFin(ret.data[m])
                    /\ Mul(ret.data[m], Mul(Int2Val(KB), temperature[m])) = One
              /\ temperature[m] = PosInf => ret.data[m] = Zero
              /\ temperature[m] = Zero => ret.data[m] = PosInf

\* calc_beta returned +inf, 1/(KB*T) = 1 and 0 for the grid of T = 0, the
\* finite T with KB*T = 1 and T = inf.
C10_Witness ==
    /\ call = "calc_beta"
    /\ temperature = <<Zero, Rat(1, KB), PosInf>>
    /\ raised = "none"
    /\ ret.data = <<PosInf, One, Zero>>

\* C11: the exponent energy*beta of calc_exponential is exactly 0 wherever
\* energy <= 0, at every T (T = 0 included), so that the exponential is
\* exp(0) = 1 there; no exponent is NaN or negative.
C11_ExponentMaskedWhereNotPositive ==
    call = "calc_exponential" =>
        \A k \in 1..Len(args.potential_energy) : \A m \in Columns :
            LET exponent == calc_exponential_exponent(args.potential_energy,
                                                      temperature)[k][m]
            IN  /\ ~IsNaN(exponent)
                /\ ~Lt0(exponent)
                /\ ~Gt0(args.potential_energy[k]) =>
                      /\ exponent = Zero
                      /\ ret.data[k][m] = One

\* C12: calc_exponential returns the Boltzmann factor of every (energy,
\* temperature) pair: 1 where energy = 0, 0 where energy > 0 and T = 0, and
\* exp(-energy/(KB*T)) where energy > 0 and T > 0.
C12_BoltzmannFactor ==
    call = "calc_exponential" =>
        /\ raised = "none"
        /\ ret.type = "ndarray"
        /\ ret.shape = <<Len(args.potential_energy), Len(temperature)>>
        /\ \A k \in 1..Len(args.potential_energy) : \A m \in Columns :
              LET energy == args.potential_energy[k]
              IN  /\ energy = Zero => ret.data[k][m] = One
                  /\ (Gt0(energy) /\ temperature[m] = Zero) =>
                        ret.data[k][m] = Zero
                  /\ (Gt0(energy) /\ Gt0(temperature[m])) =>
                        ret.data[k][m] =
                            NpExp(Neg(Div(energy,
                                          Mul(Int2Val(KB), temperature[m]))))

\* C13: calc_geometric_mean returns one value per row, the geometric mean of
\* the D entries of the row (its D-th power is their product): c for a row
\* whose entries all equal c > 0, 0 for a row of zeros; it does not raise and
\* returns no NaN.
C13_GeometricMeanOfRows ==
    call = "calc_geometric_mean" =>
        /\ raised = "none"
        /\ ret.type = "ndarray"
        /\ ret.shape = <<Len(args.frequencies)>>
        /\ \A k \in 1..Len(args.frequencies) :
              LET row == args.frequencies[k]
                  D   == Len(row)
              IN  /\ ~IsNaN(ret.data[k])
                  /\ (\A i \in 1..D : Gt0(row[i])) =>
                        NpPower(ret.data[k], D) = ProdSeq(row)
                  /\ (\A i \in 1..D : Gt0(row[i]) /\ row[i] = row[1]) =>
                        ret.data[k] = row[1]
                  /\ (\A i \in 1..D : row[i] = Zero) => ret.data[k] = Zero

\* The rows (0, 0), (4, 4) gave 0 and 4.
C13_Witness ==
    /\ call = "calc_geometric_mean"
    /\ args.frequencies = <<<<Zero, Zero>>, <<Int2Val(4), Int2Val(4)>>>>
    /\ raised = "none"
    /\ ret.data = <<Zero, Int2Val(4)>>

\* C14: calc_ensemble_average returns, for every temperature, the sum over
\* the minima of observable_k * P_k(T) in which a minimum with P_k(T) = 0
\* contributes exactly 0 whatever its observable (infinite or NaN): the
\* average is finite whenever the observables of the minima with P_k(T) # 0
\* are finite.
C14_ZeroProbabilityContributesZero ==
    (call = "calc_ensemble_average" /\ partition_functions # <<>>) =>
        /\ raised = "none"
        /\ ret.type = "ndarray"
        /\ ret.shape = <<Len(temperature)>>
        /\ \A m \in Columns :
              LET P == calc_probability(partition_functions, temperature).ret.data
              IN  (\A k \in Minima :
                      /\ ~IsNaN(P[k][m])
                      /\ P[k][m] # Zero => IsFin(observable[k])) =>
                    /\ IsFin(ret.data[m])
                    /\ ret.data[m] =
                          SumSeq([k \in Minima |->
                                     IF P[k][m] = Zero THEN Zero
                                     ELSE Mul(observable[k], P[k][m])])

\* The rows of the object a method was called on.
PFMinima == 1..NMinima(args)

\* The method returned an N x M array.
PFReturnedMatrix ==
    /\ raised = "none"
    /\ ret.type = "ndarray"
    /\ ret.shape = <<NMinima(args), Len(temperature)>>

\* C15: ElectronicPF.calc_part_func_v returns an N x M array that is 0 in
\* every cell, at every T (T = 0 and T = inf included).
C15_ElectronicVIsZero ==
    (call = "calc_part_func_v" /\ args.kind = "ElectronicPF") =>
        /\ PFReturnedMatrix
        /\ \A k \in PFMinima : \A m \in Columns : ret.data[k][m] = Zero

\* calc_part_func_v of two minima of different energy returned zeros on the
\* grid (0, inf).
C15_Witness ==
    /\ call = "calc_part_func_v"
    /\ args.kind = "ElectronicPF"
    /\ args.relative_energy = <<Zero, One>>
    /\ temperature = <<Zero, PosInf>>
    /\ ret.data = <<<<Zero, Zero>>, <<Zero, Zero>>>>

\* C16, as claimed: ElectronicPF.calc_part_func_w returns the relative energy
\* of minimum k in every temperature column, a finite value that does not
\* depend on T, and 0 where the relative energy is 0.
C16_WIsRelativeEnergy ==
    (call = "calc_part_func_w" /\ args.kind = "ElectronicPF") =>
        /\ PFReturnedMatrix
        /\ \A k \in PFMinima : \A m \in Columns :
              /\ IsFin(ret.data[k][m])
              /\ ret.data[k][m] = args.relative_energy[k]

\* C16, amended: ElectronicPF.calc_part_func_w returns for minimum k the
\* reduced moment -beta * relative_energy_k: 0 in every column where the
\* relative energy is 0 and, where it is positive, -relative_energy_k/(KB*T)
\* at a finite T > 0, 0 at T = inf and -inf at T = 0.
C16_WIsMinusBetaTimesRelativeEnergy ==
    (call = "calc_part_func_w" /\ args.kind = "ElectronicPF") =>
        /\ PFReturnedMatrix
        /\ \A k \in PFMinima : \A m \in Columns :
              LET dE == args.relative_energy[k]
                  T  == temperature[m]
              IN  /\ dE = Zero => ret.data[k][m] = Zero
                  /\ (Gt0(dE) /\ Gt0(T) /\ IsFin(T)) =>
                        /\ IsFin(ret.data[k][m])
                        /\ Mul(ret.data[k][m], Mul(Int2Val(KB), T)) = Neg(dE)
                  /\ (Gt0(dE) /\ T = PosInf) => ret.data[k][m] = Zero
                  /\ (Gt0(dE) /\ T = Zero) => ret.data[k][m] = NegInf

\* calc_part_func_w of two minima of relative energy 0 and 1 returned (0, 0)
\* and (-inf, -1) on the grid of T = 0 and KB*T = 1.
C16_Witness ==
    /\ call = "calc_part_func_w"
    /\ args.kind = "ElectronicPF"
    /\ args.relative_energy = <<Zero, One>>
    /\ temperature = <<Zero, Rat(1, KB)>>
    /\ ret.data = <<<<Zero, Zero>>, <<NegInf, Int2Val(-1)>>>>

\* C17: ClassicalHarmonicSA is constructed from the potential energies, the
\* frequencies and the symmetry orders of a landscape: with at least one
\* minimum, positive frequencies and positive symmetry orders the constructor
\* raises nothing and leaves a model that holds its contributions, the model
\* whose calc_probability weights minimum k by 1/(symmetry_k * prod_i
\* frequencies[k][i]) at T = inf.
C17_ClassicalHarmonicSAConstructed ==
    (call = "ClassicalHarmonicSA" /\ ~InvalidArgs) =>
        /\ raised = "none"
        /\ ret # NoneValue
        /\ partition_functions # <<>>

\* The minima of the landscape of approximations.py under test.
ApproxMinima == 1..Len(args.relative_energy)

\* Every minimum has the frequencies and the symmetry order of the first.
SameFrequenciesAndSymmetry ==
    \A k \in ApproxMinima :
        /\ args.frequencies[k] = args.frequencies[1]
        /\ args.symmetry_order[k] = args.symmetry_order[1]

\* One minimum alone has the lowest potential energy.
UniqueGlobalMinimum ==
    \A k \in ApproxMinima :
        k # args.global_minimum_index => Gt0(args.relative_energy[k])

\* C18: for a classical harmonic landscape of N minima that all have the same
\* frequencies and symmetry order, ClassicalHarmonic.calc_probability gives,
\* in a column of T = 0, exactly 1 for the unique global minimum and exactly
\* 0 for every other minimum and, in a column of T = inf, exactly 1/N for
\* every minimum.
C18_LimitsOfEqualMinima ==
    (call = "calc_probability" /\ args.kind = "ClassicalHarmonic"
        /\ SameFrequenciesAndSymmetry) =>
        /\ raised = "none"
        /\ ret.type = "ndarray"
        /\ ret.shape = <<Len(args.relative_energy), Len(temperature)>>
        /\ \A m \in Columns : \A k \in ApproxMinima :
              /\ (temperature[m] = Zero /\ UniqueGlobalMinimum) =>
                    ret.data[k][m] =
                        IF k = args.global_minimum_index THEN One ELSE Zero
              /\ temperature[m] = PosInf =>
                    ret.data[k][m] = Rat(1, Len(args.relative_energy))

\* Three equal minima of energies (1, 0, 1) on the grid T = (0, inf): the
\* second minimum has probability 1 at T = 0 and each has 1/3 at T = inf.
C18_Witness ==
    /\ call = "calc_probability"
    /\ args.kind = "ClassicalHarmonic"
    /\ SameFrequenciesAndSymmetry
    /\ args.potential_energy = <<One, Zero, One>>
    /\ temperature = <<Zero, PosInf>>
    /\ ret.data = <<<<Zero, Rat(1, 3)>>, <<One, Rat(1, 3)>>, <<Zero, Rat(1, 3)>>>>

\* C19: the rotational and the classical vibrational calc_part_func_w and
\* calc_part_func_v return the same constant in every cell, whatever the
\* temperature (T = 0 and T = inf included), and V = -W: W = -3/2 and V = 3/2
\* for RotationalPF, W = -kappa and V = kappa for ClassicalHarmonicPF, kappa
\* being the number of vibrational modes.
C19_ConstantMoments ==
    (call \in {"calc_part_func_w", "calc_part_func_v"}
        /\ args.kind \in {"RotationalPF", "ClassicalHarmonicPF"}) =>
        /\ PFReturnedMatrix
        /\ \A k \in PFMinima : \A m \in Columns :
              LET W == IF args.kind = "RotationalPF" THEN Rat(-3, 2)
                       ELSE Int2Val(-Len(args.frequencies[k]))
              IN  /\ call = "calc_part_func_w" => ret.data[k][m] = W
                  /\ call = "calc_part_func_v" =>
                        /\ ret.data[k][m] = Neg(W)
                        /\ ret.data[k][m] =
                              Neg(calc_part_func_w(args, temperature)[k][m])

\* calc_part_func_v of a rotational contribution of two minima returned 3/2
\* in the columns of T = 0 and T = inf.
C19_Witness ==
    /\ call = "calc_part_func_v"
    /\ args.kind = "RotationalPF"
    /\ temperature = <<Zero, PosInf>>
    /\ ret.data = <<<<Rat(3, 2), Rat(3, 2)>>, <<Rat(3, 2), Rat(3, 2)>>>>

\* C20: the rotational partition functions of two minima k and j are in the
\* ratio Z_k/Z_j = (sigma_j/sigma_k) * sqrt((I_k1 I_k2 I_k3)/(I_j1 I_j2 I_j3)),
\* in every temperature column; squared, with all the factors positive:
\* (Z_k sigma_k)^2 * (I_j1 I_j2 I_j3) = (Z_j sigma_j)^2 * (I_k1 I_k2 I_k3).
C20_RotationalRatio ==
    (call = "calc_part_func" /\ args.kind = "RotationalPF") =>
        /\ PFReturnedMatrix
        /\ \A k, j \in PFMinima : \A m \in Columns :
              LET Zs(i) == Mul(ret.data[i][m], args.symmetry_order[i])
              IN  Mul(Mul(Zs(k), Zs(k)), ProdSeq(args.moments[j]))
                    = Mul(Mul(Zs(j), Zs(j)), ProdSeq(args.moments[k]))

\* At least one of the flags -e/-s, -v/-q, -r was given.
FlagSelected == args.e \/ args.s \/ args.v \/ args.q \/ args.r

\* The '_p' and '_c' result files of the run are written.
ResultsWritten ==
    {outfile(args, "p") \o ".dat", outfile(args, "c") \o ".dat"} \subseteq ret.data

\* C21: a run of the command line writes the '_p' and '_c' results if and
\* only if at least one of the flags -e/-s, -v/-q, -r was given; it then
\* computes them on the grid min_temp, min_temp + 1, ..., max_temp, and the
\* list of the model holds exactly the selected contributions.
C21_ResultsWrittenIffFlagSelected ==
    call = "main" =>
        /\ ResultsWritten <=> FlagSelected
        /\ FlagSelected =>
              /\ raised = "none"
              /\ temperature = np_arange(args.min_temp, Add(args.max_temp, One))
              /\ partition_functions = main_partition_functions(args)

\* C22: in a column of T = 0 the quantum vibrational contribution returns the
\* value its formula takes with the asymptotes csch = 0 and coth = 1 in every
\* mode of every minimum, and never a NaN: calc_part_func, the product over
\* the modes of csch/2, is 0; calc_part_func_v, the sum over the modes of
\* (exponent * csch)^2, is 0; calc_part_func_w is not a NaN.
C22_AsymptotesAtZero ==
    (call \in {"calc_part_func", "calc_part_func_w", "calc_part_func_v"}
        /\ args.kind = "QuantumHarmonicPF") =>
        /\ PFReturnedMatrix
        /\ \A k \in PFMinima : \A m \in Columns :
              temperature[m] = Zero =>
                  /\ ~IsNaN(ret.data[k][m])
                  /\ call = "calc_part_func" => ret.data[k][m] = Zero
                  /\ call = "calc_part_func_v" => ret.data[k][m] = Zero

\* Column m of the returned matrix is the only column of the matrix that the
\* same method returned for the grid of the one temperature T_m.
ColumnEquals(m, single) ==
    /\ single.raised = "none"
    /\ single.ret.type = "ndarray"
    /\ \A k \in Minima : ret.data[k][m] = single.ret.data[k][1]

\* C23: for a model with registered contributions and any grid T, column m
\* of calc_partition_functions(T) and of calc_probability(T) is the column
\* the method returns for the one-element grid [T_m], whatever the other
\* entries of T are.
C23_ColumnsAreIndependent ==
    /\ (call = "calc_partition_functions" /\ partition_functions # <<>>) =>
          /\ ReturnedMatrix
          /\ \A m \in Columns :
                ColumnEquals(m, calc_partition_functions(partition_functions,
                                                         <<temperature[m]>>))
    /\ (call = "calc_probability" /\ partition_functions # <<>>) =>
          /\ ReturnedMatrix
          /\ \A m \in Columns :
                ColumnEquals(m, calc_probability(partition_functions,
                                                 <<temperature[m]>>))

\* calc_probability of an electronic contribution of energies (0, 1) and
\* spin multiplicities (1, 3) on the grid T = (0, inf): (1, 0) in the first
\* column and (1/4, 3/4) in the second.
C23_Witness ==
    /\ call = "calc_probability"
    /\ Len(partition_functions) = 1
    /\ temperature = <<Zero, PosInf>>
    /\ ret.data = <<<<One, Rat(1, 4)>>, <<Zero, Rat(3, 4)>>>>

\* The registered list in the order given by a permutation p of its indices.
Reordered(p) == [j \in 1..Len(partition_functions) |-> partition_functions[p[j]]]

\* Cell (k, m) of the returned matrix is the product of the cells (k, m) of
\* the given matrices, one of each registered contribution.
ProductOf(contributions) ==
    \A k \in Minima : \A m \in Columns :
        ret.data[k][m] =
            ProdSeq([j \in 1..Len(contributions) |-> contributions[j][k][m]])

Outcome(name, pfs, T, obs) ==
    CASE name = "calc_partition_functions" -> calc_partition_functions(pfs, T)
      [] name = "calc_probability"         -> calc_probability(pfs, T)
      [] name = "calc_ensemble_average"    -> calc_ensemble_average(pfs, T, obs)
      [] name = "calc_heat_capacity"       -> calc_heat_capacity(pfs, T)

ShiftValues == Vals({-2, -1, 1, 2})

\* The potential energies of the contribution under test, each plus c.
Shifted(c) ==
    [k \in 1..Len(args.potential_energy) |-> Add(args.potential_energy[k], c)]

\* The landscape of approximations.py with the given energies, one mode of
\* frequency 1 and symmetry order 1 in every minimum.
PlainLandscape(e) ==
    ClassicalHarmonic(e, [k \in 1..Len(e) |-> <<One>>], [k \in 1..Len(e) |-> One])

C27_FrequenciesAndSymmetryIgnored ==
    (call = "calc_probability" /\ args.kind = "ClassicalHarmonic") =>
        /\ raised = "none"
        /\ ret.type = "ndarray"
        /\ ret.data = ClassicalHarmonic_calc_probability(
                          PlainLandscape(args.potential_energy), temperature)

\* Two minima of energies (0, 1), of different frequencies and different
\* symmetry orders, have the probabilities (2/3, 1/3) at KB*T = 1 and
\* (1/2, 1/2) at T = inf.
C27_Witness ==
    /\ call = "calc_probability"
    /\ args.kind = "ClassicalHarmonic"
    /\ args.potential_energy = <<Zero, One>>
    /\ args.frequencies = <<<<One>>, <<Int2Val(2)>>>>
    /\ args.symmetry_order = <<Int2Val(3), One>>
    /\ temperature = <<Rat(1, KB), PosInf>>
    /\ ret.data = <<<<Rat(2, 3), Rat(1, 2)>>, <<Rat(1, 3), Rat(1, 2)>>>>

====
